---- MODULE Spec2Model ----
(***************************************************************************)
(* Model of the prediction pipeline of the Campaign Performance Predictor  *)
(* backend: the Predictor singleton (app/services/predictor.py), its       *)
(* load-once lifecycle, the feature encoder, the inference step and the    *)
(* output postprocessor, and the /api/predict route that wraps predict().  *)
(*                                                                         *)
(* Real numbers are fixed-point integers in thousandths (1.0 is 1000).     *)
(* Strings that the code parses are sequences of one-character strings.    *)
(***************************************************************************)
EXTENDS Integers, Sequences, FiniteSets, TLC

(***************************************************************************)
(* Bounds of the model.                                                    *)
(***************************************************************************)
NCallers == 2

Callers == 1..NCallers

(***************************************************************************)
(* Program constants (app/config.py, app/services/predictor.py).           *)
(***************************************************************************)
MAX_LEN == 80

MAX_VOCAB == 30000

NUM_FEATURES == 6

TARGETS == <<"likes", "comments", "shares", "clicks", "timing_quality_score">>

N_OUT == Len(TARGETS)

PLATFORM_MAP ==
  [p \in {"Facebook", "Instagram", "TikTok", "Twitter", "YouTube"} |->
     CASE p = "Facebook" -> 0
       [] p = "Instagram" -> 1
       [] p = "TikTok" -> 2
       [] p = "Twitter" -> 3
       [] p = "YouTube" -> 4]

(***************************************************************************)
(* Fixed-point arithmetic: a real r is the integer 1000 * r.               *)
(***************************************************************************)
UNIT == 1000

Max(a, b) == IF a >= b THEN a ELSE b

ToFloat(n) == n * UNIT

\* e^(f/1000) for 0 <= f < 1000, by the Taylor series to the sixth term
ExpFrac(f) ==
  LET t1 == f
      t2 == (t1 * f) \div (2 * UNIT)
      t3 == (t2 * f) \div (3 * UNIT)
      t4 == (t3 * f) \div (4 * UNIT)
      t5 == (t4 * f) \div (5 * UNIT)
      t6 == (t5 * f) \div (6 * UNIT)
  IN UNIT + t1 + t2 + t3 + t4 + t5 + t6

RECURSIVE Exp(_)
Exp(x) == IF x < UNIT THEN ExpFrac(x) ELSE (Exp(x - UNIT) * 2718) \div UNIT

\* np.expm1 on a non-negative argument
expm1(x) == Exp(x) - UNIT

RECURSIVE LogSearch(_, _, _)
LogSearch(lo, hi, target) ==
  IF lo >= hi THEN lo
  ELSE LET mid == (lo + hi + 1) \div 2
       IN IF Exp(mid) <= target THEN LogSearch(mid, hi, target)
          ELSE LogSearch(lo, mid - 1, target)

\* np.log1p on a non-negative integer: the largest x with e^x <= n + 1
log1p(n) == LogSearch(0, 7 * UNIT, (n + 1) * UNIT)

\* Python round(v, 2): to the nearest hundredth, ties to the even hundredth
round2(v) ==
  LET q == v \div 10
      r == v % 10
  IN IF r < 5 THEN q * 10
     ELSE IF r > 5 THEN (q + 1) * 10
     ELSE IF q % 2 = 0 THEN q * 10 ELSE (q + 1) * 10

(***************************************************************************)
(* Parsing of post_time and post_date (pandas.to_datetime, errors=coerce). *)
(* A string is a sequence of one-character strings.                        *)
(***************************************************************************)
Digits == <<"0", "1", "2", "3", "4", "5", "6", "7", "8", "9">>

IsDigit(ch) == \E i \in 1..10 : Digits[i] = ch

DigitVal(ch) == (CHOOSE i \in 1..10 : Digits[i] = ch) - 1

NaT ==
  [exc |-> FALSE, nat |-> TRUE, year |-> 0, month |-> 0, day |-> 0,
   hour |-> 0, minute |-> 0]

\* the call raised instead of returning a value
ParseError ==
  [exc |-> TRUE, nat |-> TRUE, year |-> 0, month |-> 0, day |-> 0,
   hour |-> 0, minute |-> 0]

Timestamp(y, m, d, hh, mm) ==
  [exc |-> FALSE, nat |-> FALSE, year |-> y, month |-> m, day |-> d,
   hour |-> hh, minute |-> mm]

\* errors="coerce" turns a value that does not parse into NaT, errors="raise"
\* into an exception
Unparseable(errors) == IF errors = "coerce" THEN NaT ELSE ParseError

\* the directive %H: 2[0-3] | [0-1]\d | \d  matched at position i; the
\* result is <<number of characters matched, value>>, <<0, 0>> on no match
MatchH(s, i) ==
  IF i + 1 <= Len(s) /\ s[i] = "2" /\ s[i + 1] \in {"0", "1", "2", "3"}
    THEN <<2, 20 + DigitVal(s[i + 1])>>
  ELSE IF i + 1 <= Len(s) /\ s[i] \in {"0", "1"} /\ IsDigit(s[i + 1])
    THEN <<2, 10 * DigitVal(s[i]) + DigitVal(s[i + 1])>>
  ELSE IF i <= Len(s) /\ IsDigit(s[i])
    THEN <<1, DigitVal(s[i])>>
  ELSE <<0, 0>>

\* the directive %M: [0-5]\d | \d
MatchM(s, i) ==
  IF i + 1 <= Len(s) /\ s[i] \in {"0", "1", "2", "3", "4", "5"} /\ IsDigit(s[i + 1])
    THEN <<2, 10 * DigitVal(s[i]) + DigitVal(s[i + 1])>>
  ELSE IF i <= Len(s) /\ IsDigit(s[i])
    THEN <<1, DigitVal(s[i])>>
  ELSE <<0, 0>>

\* pd.to_datetime(s, format="%H:%M", errors=errors)
to_datetime_HM(s, errors) ==
  LET h == MatchH(s, 1)
      c == 1 + h[1]
      m == MatchM(s, c + 1)
  IN IF h[1] = 0 THEN Unparseable(errors)
     ELSE IF ~(c <= Len(s) /\ s[c] = ":") THEN Unparseable(errors)
     ELSE IF m[1] = 0 THEN Unparseable(errors)
     ELSE IF c + m[1] # Len(s) THEN Unparseable(errors)
     ELSE Timestamp(1900, 1, 1, h[2], m[2])

IsLeap(y) == (y % 4 = 0 /\ y % 100 # 0) \/ y % 400 = 0

DaysInMonth(y, m) ==
  IF m = 2 THEN (IF IsLeap(y) THEN 29 ELSE 28)
  ELSE IF m \in {4, 6, 9, 11} THEN 30 ELSE 31

Num2(s, i) == 10 * DigitVal(s[i]) + DigitVal(s[i + 1])

\* pd.to_datetime(s, errors=errors) on an ISO calendar date YYYY-MM-DD;
\* anything else the input sets below contain is not a date
to_datetime(s, errors) ==
  IF ~(Len(s) = 10 /\ s[5] = "-" /\ s[8] = "-"
       /\ \A i \in {1, 2, 3, 4, 6, 7, 9, 10} : IsDigit(s[i]))
    THEN Unparseable(errors)
  ELSE LET y == 100 * Num2(s, 1) + Num2(s, 3)
           m == Num2(s, 6)
           d == Num2(s, 9)
       IN IF m < 1 \/ m > 12 THEN Unparseable(errors)
          ELSE IF d < 1 \/ d > DaysInMonth(y, m) THEN Unparseable(errors)
          ELSE IF y < 1678 \/ y > 2261 THEN Unparseable(errors)
          ELSE Timestamp(y, m, d, 0, 0)

\* days since 1970-01-01 of a calendar date
DaysFromCivil(y0, m, d) ==
  LET y == IF m <= 2 THEN y0 - 1 ELSE y0
      era == y \div 400
      yoe == y - era * 400
      mp == (m + 9) % 12
      doy == (153 * mp + 2) \div 5 + d - 1
      doe == yoe * 365 + yoe \div 4 - yoe \div 100 + doy
  IN era * 146097 + doe - 719468

\* Timestamp.dayofweek: Monday is 0, Sunday is 6
dayofweek(ts) == (DaysFromCivil(ts.year, ts.month, ts.day) + 3) % 7

(***************************************************************************)
(* Predictor._encode_numeric.  A call yields [exc, value]: exc is TRUE     *)
(* when the call raised.                                                   *)
(***************************************************************************)
Raised == [exc |-> TRUE, value |-> <<>>]

Returned(v) == [exc |-> FALSE, value |-> v]

\* variant: PLATFORM_MAP[platform], a KeyError for a string not in the table
PlatformIdStrict(platform) ==
  IF platform \in DOMAIN PLATFORM_MAP
    THEN Returned(PLATFORM_MAP[platform])
    ELSE Raised

\* PLATFORM_MAP.get(platform, 0)
PlatformId(platform) ==
  IF platform \in DOMAIN PLATFORM_MAP
    THEN Returned(PLATFORM_MAP[platform])
    ELSE Returned(0)

\* variant: errors="coerce" left out, so the default errors="raise" applies
ParseTimeStrict(post_time) == to_datetime_HM(post_time, "raise")

\* pd.to_datetime(post_time, format="%H:%M", errors="coerce")
ParseTime(post_time) == to_datetime_HM(post_time, "coerce")

\* pd.to_datetime(post_date, errors="coerce")
ParseDate(post_date) == to_datetime(post_date, "coerce")

\* hour = <timestamp>.hour, which is NaN on NaT; 12 when it is NaN
Hour(t) == IF t.nat THEN 12 ELSE t.hour

\* day_of_week = dt.dayofweek if not pd.isna(dt) else 0
DayOfWeek(dt) == IF ~dt.nat THEN dayofweek(dt) ELSE 0

\* variant: the weekend taken as days 6 and 7, as with isoweekday()
IsWeekendIso(day_of_week) == IF day_of_week \in {6, 7} THEN 1 ELSE 0

\* is_weekend = int(day_of_week in [5, 6])
IsWeekend(day_of_week) == IF day_of_week \in {5, 6} THEN 1 ELSE 0

\* followers_log = float(np.log1p(max(followers, 0)))
FollowersLog(followers) == log1p(Max(followers, 0))

encode_numeric(platform, post_date, post_time, followers, ad_boost) ==
  LET platform_id == PlatformId(platform)
      t == ParseTime(post_time)
      dt == ParseDate(post_date)
      hour == Hour(t)
      day_of_week == DayOfWeek(dt)
      is_weekend == IsWeekend(day_of_week)
      followers_log == FollowersLog(followers)
  IN IF platform_id.exc \/ t.exc \/ dt.exc THEN Raised
     ELSE Returned(<<ToFloat(platform_id.value), ToFloat(hour),
                     ToFloat(day_of_week), ToFloat(is_weekend),
                     followers_log, ToFloat(ad_boost)>>)

(***************************************************************************)
(* Predictor._encode_text.  A text is the sequence of its words; joining   *)
(* caption and content with one space and splitting the result on white    *)
(* space gives the words of the caption followed by those of the content.  *)
(***************************************************************************)
\* Tokenizer.texts_to_sequences on one text: a word of the vocabulary whose
\* index is below num_words becomes its index, any other word is dropped
\* (the tokenizer has no out-of-vocabulary token)
texts_to_sequences(tok, words) ==
  LET Kept(w) == w \in DOMAIN tok.word_index /\ tok.word_index[w] < tok.num_words
      kept == SelectSeq(words, Kept)
  IN [i \in 1..Len(kept) |-> tok.word_index[kept[i]]]

\* variant: pad_sequences(seq, maxlen) with its defaults padding="pre",
\* truncating="pre"
pad_sequences_pre(seq, maxlen) ==
  LET n == Len(seq)
  IN [i \in 1..maxlen |->
        IF n >= maxlen THEN seq[n - maxlen + i]
        ELSE IF i <= maxlen - n THEN 0 ELSE seq[i - (maxlen - n)]]

\* pad_sequences(seq, maxlen, padding="post", truncating="post")
pad_sequences(seq, maxlen) ==
  [i \in 1..maxlen |-> IF i <= Len(seq) THEN seq[i] ELSE 0]

encode_text(tok, caption, content) ==
  LET text == caption \o content
      seq == texts_to_sequences(tok, text)
  IN pad_sequences(seq, MAX_LEN)

(***************************************************************************)
(* Inference and postprocessing.                                           *)
(***************************************************************************)
RECURSIVE SumRange(_, _, _)
SumRange(s, lo, hi) ==
  IF lo > hi THEN 0
  ELSE IF lo = hi THEN s[lo]
  ELSE LET mid == (lo + hi) \div 2
       IN SumRange(s, lo, mid) + SumRange(s, mid + 1, hi)

SumSeq(s) == SumRange(s, 1, Len(s))

\* model.predict([x_text, x_num]): the forward pass is a deterministic
\* function of the weights and the two encoded inputs; its value is a
\* vector of N_OUT reals in normalised space
Forward(m, x_text, x_num) ==
  LET h == (SumSeq(x_text) + SumSeq(x_num) \div UNIT) % 5
  IN [i \in 1..N_OUT |-> m.weights[i] + (h - 2) * 300 * i]

\* variant: the scaler inversion left out
inverse_transform_skipped(sc, raw) == [i \in 1..N_OUT |-> raw[i]]

\* y_scaler.inverse_transform(raw)[0]
inverse_transform(sc, raw) ==
  [i \in 1..N_OUT |-> (raw[i] * sc.scale[i]) \div UNIT + sc.mean[i]]

\* variant: without the final max(val, 0)
PostTargetNoClamp(target, val) ==
  LET v1 == IF target \in {"likes", "comments", "shares", "clicks"}
              THEN expm1(Max(val, 0))
              ELSE val
  IN round2(v1)

\* variant: expm1 applied to every target, the timing score included
PostTargetAllExpm1(target, val) ==
  LET v1 == expm1(Max(val, 0))
  IN round2(Max(v1, 0))

\* the body of the loop over TARGETS for one target
PostTarget(target, val) ==
  LET v1 == IF target \in {"likes", "comments", "shares", "clicks"}
              THEN expm1(Max(val, 0))
              ELSE val
  IN round2(Max(v1, 0))

\* variant: the loop runs over the four count targets only
PostprocessCountsOnly(inverse) ==
  [target \in {"likes", "comments", "shares", "clicks"} |->
     LET i == CHOOSE k \in 1..Len(TARGETS) : TARGETS[k] = target
     IN PostTarget(target, inverse[i])]

\* the loop over TARGETS: the result dict
Postprocess(inverse) ==
  [target \in {TARGETS[i] : i \in 1..Len(TARGETS)} |->
     LET i == CHOOSE k \in 1..Len(TARGETS) : TARGETS[k] = target
     IN PostTarget(target, inverse[i])]

(***************************************************************************)
(* The artifacts on disk (SavedModels/) and the inputs of the model.       *)
(***************************************************************************)
\* the trained weights stored in Transformer.keras
TrainedWeights == <<500, -1200, 300, 0, 2000>>

\* the random initial weights a freshly built architecture may get
FreshWeights == {<<0, 0, 0, 0, 0>>, <<-700, 400, 100, 900, -300>>}

Vocabulary == {"new", "sale", "shop", "rare"}

\* the tokenizer stored in tokenizer.json
TheTokenizer ==
  [set |-> TRUE,
   word_index |-> [w \in Vocabulary |->
                     CASE w = "new" -> 1
                       [] w = "sale" -> 2
                       [] w = "shop" -> 3
                       [] w = "rare" -> MAX_VOCAB],
   num_words |-> MAX_VOCAB]

\* the fitted scaler stored in y_scaler.pkl
TheScaler ==
  [set |-> TRUE,
   mean |-> <<2000, 1000, 500, 1500, 3000>>,
   scale |-> <<1200, 1000, 800, 1100, 1500>>]

\* an attribute of the Predictor that has not been assigned yet
NoModel == [restored |-> "unset", weights |-> <<0, 0, 0, 0, 0>>]

NoTokenizer ==
  [set |-> FALSE, word_index |-> [w \in Vocabulary |-> 0], num_words |-> 0]

NoScaler ==
  [set |-> FALSE, mean |-> <<0, 0, 0, 0, 0>>, scale |-> <<0, 0, 0, 0, 0>>]

Rep(w, n) == [i \in 1..n |-> w]

DateMonday == <<"2", "0", "2", "4", "-", "0", "6", "-", "1", "0">>

DateSaturday == <<"2", "0", "2", "4", "-", "0", "6", "-", "1", "5">>

DateBad == <<"n", "o", "t", "-", "a", "-", "d", "a", "t", "e">>

TimeMorning == <<"0", "9", ":", "3", "0">>

TimeBad == <<"b", "a", "d", "-", "t", "i", "m", "e">>

Fmt2(n) == <<Digits[(n \div 10) + 1], Digits[(n % 10) + 1]>>

\* the text YYYY-MM-DD of a date
DateStr(y, m, d) ==
  Fmt2(y \div 100) \o Fmt2(y % 100) \o <<"-">> \o Fmt2(m) \o <<"-">> \o Fmt2(d)

\* the text HH:MM of a time of day
TimeStr(hh, mm) == Fmt2(hh) \o <<":">> \o Fmt2(mm)

NoInput ==
  [caption |-> <<>>, content |-> <<>>, platform |-> "", post_date |-> <<>>,
   post_time |-> <<>>, followers |-> 0, ad_boost |-> 0]

\* the requests the callers of predict() send
PredictInputs ==
  { [caption |-> <<"new", "sale">>, content |-> <<"shop">>,
     platform |-> "Instagram", post_date |-> DateMonday,
     post_time |-> TimeMorning, followers |-> 1000, ad_boost |-> 0],
    [caption |-> Rep("sale", MAX_LEN + 1), content |-> <<"rare", "new">>,
     platform |-> "LinkedIn", post_date |-> DateBad,
     post_time |-> TimeBad, followers |-> 0, ad_boost |-> 1] }

\* strings given as platform: the five of the table and others
KnownPlatforms == {"Facebook", "Instagram", "TikTok", "Twitter", "YouTube"}

OtherPlatforms == {"LinkedIn", "facebook", ""}

\* strings given as post_date: the seven days of a week, a leap day, and
\* strings that are not a date
WellFormedDates ==
  {DateStr(2024, 6, d) : d \in 10..16} \cup {DateStr(2024, 2, 29)}

MalformedDates ==
  {DateBad, <<>>, <<"b", "a", "d">>, DateStr(2023, 2, 29)}

\* strings given as post_time: times of day, and strings "%H:%M" rejects
WellFormedTimes ==
  {TimeStr(0, 0), TimeMorning, TimeStr(12, 0), TimeStr(23, 59),
   <<"9", ":", "3", "0">>}

MalformedTimes ==
  {TimeBad, <<>>, TimeStr(24, 0), TimeStr(12, 60),
   TimeMorning \o <<":", "0", "0">>, <<"0", "9", "3", "0">>}

FollowerCounts == {-5, 0, 1000}

\* the arguments of the stand-alone calls of the numeric encoder
EncInputs ==
  [caption : {<<>>}, content : {<<>>},
   platform : KnownPlatforms \cup OtherPlatforms,
   post_date : WellFormedDates \cup MalformedDates,
   post_time : WellFormedTimes \cup MalformedTimes,
   followers : FollowerCounts, ad_boost : {0, 1}]

\* components of the raw output vectors given to the postprocessor, from a
\* large negative value up
RawValues == {-50000, -1500, 0, 800, 2500}

\* a second fitted scaler, with negative means
OtherScaler ==
  [set |-> TRUE,
   mean |-> <<-500, 0, -2000, 100, -1000>>,
   scale |-> <<500, 2000, 1000, 300, 1000>>]

\* the raw vectors and scalers of the stand-alone calls of the postprocessor
PostInputs == [raw : [1..N_OUT -> RawValues], scaler : {TheScaler, OtherScaler}]

\* how many words beyond MAX_LEN the longest texts have
ExtraWords == 3

\* captions and contents: empty, one word, words the tokenizer drops, and
\* texts around and beyond MAX_LEN tokens whose first and last words differ
Captions ==
  {<<>>, <<"new">>, <<"rare", "zzz">>, <<"sale", "zzz", "shop">>,
   Rep("sale", MAX_LEN - 2),
   <<"new">> \o Rep("sale", MAX_LEN - 2),
   <<"new">> \o Rep("sale", MAX_LEN - 1),
   <<"new", "rare">> \o Rep("sale", MAX_LEN + ExtraWords - 3)}

Contents == {<<>>, <<"shop">>, <<"zzz", "shop", "new">>}

\* the arguments of the stand-alone calls of the text encoder
TextInputs ==
  [caption : Captions, content : Contents, platform : {"Facebook"},
   post_date : {DateMonday}, post_time : {TimeMorning},
   followers : {0}, ad_boost : {0}]

(***************************************************************************)
(* State.                                                                  *)
(***************************************************************************)
VARIABLES
  loaded,     \* Predictor._loaded
  model,      \* Predictor.model
  tokenizer,  \* Predictor.tokenizer
  y_scaler,   \* Predictor.y_scaler
  env,        \* which artifact operations succeed in this deployment
  pc,         \* per caller: the statement it is about to execute
  op,         \* per caller: the entry point it called, "load" or "predict"
  input,      \* per caller: the arguments of predict()
  x_text,     \* per caller: local of predict()
  x_num,      \* per caller: local of predict()
  raw,        \* per caller: local of predict()
  inverse,    \* per caller: local of predict()
  result,     \* per caller: the value predict() returned
  outcome,    \* per caller: "none", "returned" or "raised"
  http,       \* per caller: status the /api/predict route answers with
  pre,        \* per caller: the Predictor's attributes when the call began
  steps,      \* per caller: the steps the call has attempted, in order,
              \* each with whether it succeeded
  inits,      \* how many times the initialization sequence ran to its end
  encIn,      \* arguments of a stand-alone call of the feature encoder
  encOut,     \* its result
  postIn,     \* a raw output vector and a scaler given to the postprocessor
  postOut,    \* the mapping the postprocessor makes of them
  ocrIn,      \* what the two OCR engines do with the uploaded image
  ocrPc,      \* the position of extract_text_from_image and its route
  ocrOut,     \* the dict extract_text_from_image returned
  ocrHttp     \* the status the /api/ocr route answers with

sharedVars == <<loaded, model, tokenizer, y_scaler>>

localVars == <<x_text, x_num, raw, inverse, result>>

callVars == <<op, input, pre>>

auxVars == <<postIn, postOut, ocrIn, ocrPc, ocrOut, ocrHttp>>

encVars == <<inits, encIn, encOut, auxVars>>

vars ==
  <<loaded, model, tokenizer, y_scaler, env, pc, op, input, x_text, x_num,
    raw, inverse, result, outcome, http, pre, steps, inits, encIn, encOut,
    postIn, postOut, ocrIn, ocrPc, ocrOut, ocrHttp>>

Shared ==
  [loaded |-> loaded, model |-> model, tokenizer |-> tokenizer,
   y_scaler |-> y_scaler]

NoVector == <<>>

NoResult == <<>>

NoEncOut == [kind |-> "none", exc |-> FALSE, value |-> <<>>]

NoPostIn == [raw |-> <<>>, scaler |-> NoScaler]

NoPostOut == [done |-> FALSE, value |-> <<>>]

NoOcrIn == [easyocr |-> [exc |-> TRUE, blocks |-> <<>>],
            vision |-> [exc |-> TRUE, len |-> 0]]

NoOcrOut == [text |-> 0, source |-> "none"]

\* the postprocessor is not being exercised on its own
PostIdle == postIn = NoPostIn /\ postOut = NoPostOut

\* no image is being processed
OcrIdle ==
  /\ ocrIn = NoOcrIn
  /\ ocrPc = "idle"
  /\ ocrOut = NoOcrOut
  /\ ocrHttp = 0

Envs ==
  [build : BOOLEAN, load_weights : BOOLEAN, load_model : BOOLEAN,
   tokenizer : BOOLEAN, y_scaler : BOOLEAN]

InitPredictor ==
  /\ loaded = FALSE
  /\ model = NoModel
  /\ tokenizer = NoTokenizer
  /\ y_scaler = NoScaler
  /\ pc = [c \in Callers |-> "idle"]
  /\ op = [c \in Callers |-> "none"]
  /\ input = [c \in Callers |-> NoInput]
  /\ x_text = [c \in Callers |-> NoVector]
  /\ x_num = [c \in Callers |-> NoVector]
  /\ raw = [c \in Callers |-> NoVector]
  /\ inverse = [c \in Callers |-> NoVector]
  /\ result = [c \in Callers |-> NoResult]
  /\ outcome = [c \in Callers |-> "none"]
  /\ http = [c \in Callers |-> 0]
  /\ pre = [c \in Callers |-> Shared]
  /\ steps = [c \in Callers |-> <<>>]
  /\ inits = 0

Init ==
  /\ InitPredictor
  /\ env \in Envs
  /\ encIn = NoInput
  /\ encOut = NoEncOut
  /\ PostIdle
  /\ OcrIdle

(***************************************************************************)
(* Calls: entering load() or predict(), and leaving.                       *)
(***************************************************************************)
Goto(c, label) == pc' = [pc EXCEPT ![c] = label]

Did(c, step) ==
  steps' = [steps EXCEPT ![c] = Append(@, [name |-> step, ok |-> TRUE])]

Failed(c, step) ==
  steps' = [steps EXCEPT ![c] = Append(@, [name |-> step, ok |-> FALSE])]

\* an exception leaves the call; the route turns one out of predict() into
\* an HTTP 500
Raise(c, step) ==
  /\ Goto(c, "done")
  /\ Failed(c, step)
  /\ outcome' = [outcome EXCEPT ![c] = "raised"]
  /\ http' = [http EXCEPT ![c] = IF op[c] = "predict" THEN 500 ELSE 0]

Enter(c, entry, args) ==
  /\ pc[c] = "idle"
  /\ Goto(c, "load_check")
  /\ op' = [op EXCEPT ![c] = entry]
  /\ input' = [input EXCEPT ![c] = args]
  /\ pre' = [pre EXCEPT ![c] = Shared]
  /\ UNCHANGED <<sharedVars, env, localVars, outcome, http, steps, encVars>>

\* lifespan (or any other caller) calls predictor.load()
CallLoad(c) == Enter(c, "load", NoInput)

\* variant: predict() without its first statement self.load()
CallPredictNoLoad(c) ==
  \E args \in PredictInputs :
    /\ pc[c] = "idle"
    /\ Goto(c, "encode_text")
    /\ op' = [op EXCEPT ![c] = "predict"]
    /\ input' = [input EXCEPT ![c] = args]
    /\ pre' = [pre EXCEPT ![c] = Shared]
    /\ UNCHANGED <<sharedVars, env, localVars, outcome, http, steps, encVars>>

\* the /api/predict route calls predictor.predict(...), whose first
\* statement is self.load()
CallPredict(c) == \E args \in PredictInputs : Enter(c, "predict", args)

\* the caller has its answer and becomes free for another call
Return(c) ==
  /\ pc[c] = "done"
  /\ Goto(c, "idle")
  /\ op' = [op EXCEPT ![c] = "none"]
  /\ input' = [input EXCEPT ![c] = NoInput]
  /\ x_text' = [x_text EXCEPT ![c] = NoVector]
  /\ x_num' = [x_num EXCEPT ![c] = NoVector]
  /\ raw' = [raw EXCEPT ![c] = NoVector]
  /\ inverse' = [inverse EXCEPT ![c] = NoVector]
  /\ result' = [result EXCEPT ![c] = NoResult]
  /\ outcome' = [outcome EXCEPT ![c] = "none"]
  /\ http' = [http EXCEPT ![c] = 0]
  /\ pre' = [pre EXCEPT ![c] = Shared]
  /\ steps' = [steps EXCEPT ![c] = <<>>]
  /\ UNCHANGED <<sharedVars, env, encVars>>

(***************************************************************************)
(* Predictor.load, one action per statement.                               *)
(***************************************************************************)
\* load() returns normally: to its caller, or into the rest of predict()
LoadReturns(c) ==
  IF op[c] = "load"
    THEN /\ Goto(c, "done")
         /\ outcome' = [outcome EXCEPT ![c] = "returned"]
    ELSE /\ Goto(c, "encode_text")
         /\ UNCHANGED outcome

\* variant: load() without the guard "if self._loaded: return"
LoadCheckAlways(c) ==
  /\ pc[c] = "load_check"
  /\ Goto(c, "build")
  /\ UNCHANGED <<sharedVars, env, callVars, localVars, outcome, http, steps, encVars>>

\* variant: the flag is set as soon as the guard is passed
LoadCheckEager(c) ==
  /\ pc[c] = "load_check"
  /\ IF loaded
       THEN LoadReturns(c) /\ UNCHANGED loaded
       ELSE Goto(c, "build") /\ loaded' = TRUE /\ UNCHANGED outcome
  /\ UNCHANGED <<model, tokenizer, y_scaler, env, callVars, localVars, http,
                 steps, encVars>>

\* if self._loaded: return
LoadCheck(c) ==
  /\ pc[c] = "load_check"
  /\ IF loaded
       THEN LoadReturns(c)
       ELSE Goto(c, "build") /\ UNCHANGED outcome
  /\ UNCHANGED <<sharedVars, env, callVars, localVars, http, steps, encVars>>

\* self.model = _build_transformer(), and the dummy forward pass
Build(c) ==
  /\ pc[c] = "build"
  /\ IF env.build
       THEN /\ \E w \in FreshWeights :
                 model' = [restored |-> "none", weights |-> w]
            /\ Goto(c, "load_weights")
            /\ Did(c, "build")
            /\ UNCHANGED <<outcome, http>>
       ELSE /\ Raise(c, "build")
            /\ UNCHANGED model
  /\ UNCHANGED <<loaded, tokenizer, y_scaler, env, callVars, localVars, encVars>>

\* variant: no try/except around load_weights
LoadWeightsNoFallback(c) ==
  /\ pc[c] = "load_weights"
  /\ IF env.load_weights
       THEN /\ model' = [restored |-> "load_weights", weights |-> TrainedWeights]
            /\ Goto(c, "tokenizer")
            /\ Did(c, "load_weights")
            /\ UNCHANGED <<outcome, http>>
       ELSE /\ Raise(c, "load_weights")
            /\ UNCHANGED model
  /\ UNCHANGED <<loaded, tokenizer, y_scaler, env, callVars, localVars, encVars>>

\* try: self.model.load_weights(TRANSFORMER_MODEL_PATH)
LoadWeights(c) ==
  /\ pc[c] = "load_weights"
  /\ IF env.load_weights
       THEN /\ model' = [restored |-> "load_weights", weights |-> TrainedWeights]
            /\ Goto(c, "tokenizer")
            /\ Did(c, "load_weights")
       ELSE /\ Goto(c, "load_model")
            /\ Failed(c, "load_weights")
            /\ UNCHANGED model
  /\ UNCHANGED <<loaded, tokenizer, y_scaler, env, callVars, localVars,
                 outcome, http, encVars>>

\* except: self.model = tf.keras.models.load_model(..., custom_objects=...)
LoadModel(c) ==
  /\ pc[c] = "load_model"
  /\ IF env.load_model
       THEN /\ model' = [restored |-> "load_model", weights |-> TrainedWeights]
            /\ Goto(c, "tokenizer")
            /\ Did(c, "load_model")
            /\ UNCHANGED <<outcome, http>>
       ELSE /\ Raise(c, "load_model")
            /\ UNCHANGED model
  /\ UNCHANGED <<loaded, tokenizer, y_scaler, env, callVars, localVars, encVars>>

\* self.tokenizer = tokenizer_from_json(f.read())
LoadTokenizer(c) ==
  /\ pc[c] = "tokenizer"
  /\ IF env.tokenizer
       THEN /\ tokenizer' = TheTokenizer
            /\ Goto(c, "y_scaler")
            /\ Did(c, "tokenizer")
            /\ UNCHANGED <<outcome, http>>
       ELSE /\ Raise(c, "tokenizer")
            /\ UNCHANGED tokenizer
  /\ UNCHANGED <<loaded, model, y_scaler, env, callVars, localVars, encVars>>

\* self.y_scaler = pickle.load(f)
LoadScaler(c) ==
  /\ pc[c] = "y_scaler"
  /\ IF env.y_scaler
       THEN /\ y_scaler' = TheScaler
            /\ Goto(c, "set_loaded")
            /\ Did(c, "y_scaler")
            /\ UNCHANGED <<outcome, http>>
       ELSE /\ Raise(c, "y_scaler")
            /\ UNCHANGED y_scaler
  /\ UNCHANGED <<loaded, model, tokenizer, env, callVars, localVars, encVars>>

\* self._loaded = True, and load() returns
SetLoaded(c) ==
  /\ pc[c] = "set_loaded"
  /\ loaded' = TRUE
  /\ LoadReturns(c)
  /\ Did(c, "set_loaded")
  /\ inits' = inits + 1
  /\ UNCHANGED <<model, tokenizer, y_scaler, env, callVars, localVars,
                 http, encIn, encOut, auxVars>>

(***************************************************************************)
(* Predictor.predict after self.load(), one action per statement.  Any of  *)
(* the statements that run library code may fail at run time.              *)
(***************************************************************************)
\* x_text = self._encode_text(caption, content)
EncodeText(c) ==
  /\ pc[c] = "encode_text"
  /\ \E fault \in BOOLEAN :
       IF tokenizer.set /\ ~fault
         THEN /\ x_text' = [x_text EXCEPT ![c] =
                   encode_text(tokenizer, input[c].caption, input[c].content)]
              /\ Goto(c, "encode_numeric")
              /\ Did(c, "encode_text")
              /\ UNCHANGED <<outcome, http>>
         ELSE /\ Raise(c, "encode_text")
              /\ UNCHANGED x_text
  /\ UNCHANGED <<sharedVars, env, callVars, x_num, raw, inverse, result, encVars>>

\* x_num = self._encode_numeric(platform, post_date, post_time, followers, ad_boost)
EncodeNumeric(c) ==
  /\ pc[c] = "encode_numeric"
  /\ LET r == encode_numeric(input[c].platform, input[c].post_date,
                             input[c].post_time, input[c].followers,
                             input[c].ad_boost)
     IN IF ~r.exc
          THEN /\ x_num' = [x_num EXCEPT ![c] = r.value]
               /\ Goto(c, "infer")
               /\ Did(c, "encode_numeric")
               /\ UNCHANGED <<outcome, http>>
          ELSE /\ Raise(c, "encode_numeric")
               /\ UNCHANGED x_num
  /\ UNCHANGED <<sharedVars, env, callVars, x_text, raw, inverse, result, encVars>>

\* variant: a failed forward pass clears the flag to force a reload
InferResetOnFault(c) ==
  /\ pc[c] = "infer"
  /\ \E fault \in BOOLEAN :
       IF model.restored # "unset" /\ ~fault
         THEN /\ raw' = [raw EXCEPT ![c] = Forward(model, x_text[c], x_num[c])]
              /\ Goto(c, "inverse_transform")
              /\ Did(c, "infer")
              /\ UNCHANGED <<loaded, outcome, http>>
         ELSE /\ Raise(c, "infer")
              /\ loaded' = FALSE
              /\ UNCHANGED raw
  /\ UNCHANGED <<model, tokenizer, y_scaler, env, callVars, x_text, x_num,
                 inverse, result, encVars>>

\* variant: a failed forward pass is tried again
InferRetry(c) ==
  /\ pc[c] = "infer"
  /\ \E fault \in BOOLEAN :
       IF model.restored # "unset" /\ ~fault
         THEN /\ raw' = [raw EXCEPT ![c] = Forward(model, x_text[c], x_num[c])]
              /\ Goto(c, "inverse_transform")
              /\ Did(c, "infer")
         ELSE /\ Failed(c, "infer")
              /\ UNCHANGED <<pc, raw>>
  /\ UNCHANGED <<sharedVars, env, callVars, x_text, x_num, inverse, result,
                 outcome, http, encVars>>

\* raw = self.model.predict([x_text, x_num], verbose=0)
Infer(c) ==
  /\ pc[c] = "infer"
  /\ \E fault \in BOOLEAN :
       IF model.restored # "unset" /\ ~fault
         THEN /\ raw' = [raw EXCEPT ![c] = Forward(model, x_text[c], x_num[c])]
              /\ Goto(c, "inverse_transform")
              /\ Did(c, "infer")
              /\ UNCHANGED <<outcome, http>>
         ELSE /\ Raise(c, "infer")
              /\ UNCHANGED raw
  /\ UNCHANGED <<sharedVars, env, callVars, x_text, x_num, inverse, result, encVars>>

\* inverse = self.y_scaler.inverse_transform(raw)[0]
InverseTransform(c) ==
  /\ pc[c] = "inverse_transform"
  /\ \E fault \in BOOLEAN :
       IF y_scaler.set /\ ~fault
         THEN /\ inverse' = [inverse EXCEPT ![c] = inverse_transform(y_scaler, raw[c])]
              /\ Goto(c, "postprocess")
              /\ Did(c, "inverse_transform")
              /\ UNCHANGED <<outcome, http>>
         ELSE /\ Raise(c, "inverse_transform")
              /\ UNCHANGED inverse
  /\ UNCHANGED <<sharedVars, env, callVars, x_text, x_num, raw, result, encVars>>

\* the loop over TARGETS and "return result"; the route goes on to answer 200
PostprocessAndReturn(c) ==
  /\ pc[c] = "postprocess"
  /\ result' = [result EXCEPT ![c] = Postprocess(inverse[c])]
  /\ Goto(c, "done")
  /\ Did(c, "postprocess")
  /\ outcome' = [outcome EXCEPT ![c] = "returned"]
  /\ http' = [http EXCEPT ![c] = 200]
  /\ UNCHANGED <<sharedVars, env, callVars, x_text, x_num, raw, inverse, encVars>>

(***************************************************************************)
(* Specifications.                                                         *)
(***************************************************************************)
Step(c) ==
  \/ LoadCheck(c)
  \/ Build(c)
  \/ LoadWeights(c)
  \/ LoadModel(c)
  \/ LoadTokenizer(c)
  \/ LoadScaler(c)
  \/ SetLoaded(c)
  \/ EncodeText(c)
  \/ EncodeNumeric(c)
  \/ Infer(c)
  \/ InverseTransform(c)
  \/ PostprocessAndReturn(c)
  \/ Return(c)

\* callers are threads: their calls interleave statement by statement
Next ==
  \E c \in Callers :
    \/ CallLoad(c)
    \/ CallPredict(c)
    \/ Step(c)

Spec == Init /\ [][Next]_vars

\* no call is in progress
Quiescent == \A c \in Callers : pc[c] \in {"idle", "done"}

\* callers are served one at a time, as by the event loop that runs the
\* lifespan hook and the async route handlers: a call begins only when no
\* other call is in progress
NextSeq ==
  \E c \in Callers :
    \/ Quiescent /\ CallLoad(c)
    \/ Quiescent /\ CallPredict(c)
    \/ Step(c)

SpecSeq == Init /\ [][NextSeq]_vars

(***************************************************************************)
(* The feature encoder called on its own, on every input of EncInputs.     *)
(***************************************************************************)
AllArtifactsGood ==
  [build |-> TRUE, load_weights |-> TRUE, load_model |-> TRUE,
   tokenizer |-> TRUE, y_scaler |-> TRUE]

InitEnc ==
  /\ InitPredictor
  /\ env = AllArtifactsGood
  /\ encIn \in EncInputs \cup TextInputs
  /\ encOut = NoEncOut
  /\ PostIdle
  /\ OcrIdle

ApplyEncodeNumeric ==
  /\ encOut.kind = "none"
  /\ LET r == encode_numeric(encIn.platform, encIn.post_date, encIn.post_time,
                             encIn.followers, encIn.ad_boost)
     IN encOut' = [kind |-> "numeric", exc |-> r.exc, value |-> r.value]
  /\ UNCHANGED <<sharedVars, env, pc, callVars, localVars, outcome, http,
                 steps, inits, encIn, auxVars>>

\* _encode_text with the tokenizer of tokenizer.json
ApplyEncodeText ==
  /\ encOut.kind = "none"
  /\ encOut' = [kind |-> "text", exc |-> FALSE,
                value |-> encode_text(TheTokenizer, encIn.caption, encIn.content)]
  /\ UNCHANGED <<sharedVars, env, pc, callVars, localVars, outcome, http,
                 steps, inits, encIn, auxVars>>

NextEnc == ApplyEncodeNumeric \/ ApplyEncodeText

SpecEnc == InitEnc /\ [][NextEnc]_vars

(***************************************************************************)
(* The postprocessor called on its own: lines 173-183 of predict() on      *)
(* every raw vector and scaler of PostInputs.                              *)
(***************************************************************************)
TargetSetOf(targets) == {targets[i] : i \in 1..Len(targets)}

InitPost ==
  /\ InitPredictor
  /\ env = AllArtifactsGood
  /\ encIn = NoInput
  /\ encOut = NoEncOut
  /\ postIn \in PostInputs
  /\ postOut = NoPostOut
  /\ OcrIdle

\* variant: the log inversion applied to the raw values, the scaler
\* inversion after it
ApplyPostprocessLogFirst ==
  /\ ~postOut.done
  /\ LET logged == [i \in 1..N_OUT |->
                     IF i <= 4 THEN expm1(Max(postIn.raw[i], 0))
                     ELSE postIn.raw[i]]
         inv == inverse_transform(postIn.scaler, logged)
     IN postOut' = [done |-> TRUE,
                   value |-> [t \in TargetSetOf(TARGETS) |->
                                LET i == CHOOSE k \in 1..Len(TARGETS) : TARGETS[k] = t
                                IN round2(Max(inv[i], 0))]]
  /\ UNCHANGED <<sharedVars, env, pc, callVars, localVars, outcome, http,
                 steps, inits, encIn, encOut, postIn, ocrIn, ocrPc, ocrOut,
                 ocrHttp>>

ApplyPostprocess ==
  /\ ~postOut.done
  /\ LET inv == inverse_transform(postIn.scaler, postIn.raw)
     IN postOut' = [done |-> TRUE, value |-> Postprocess(inv)]
  /\ UNCHANGED <<sharedVars, env, pc, callVars, localVars, outcome, http,
                 steps, inits, encIn, encOut, postIn, ocrIn, ocrPc, ocrOut,
                 ocrHttp>>

NextPost == ApplyPostprocess

SpecPost == InitPost /\ [][NextPost]_vars

(***************************************************************************)
(* app/services/ocr_service.py and the /api/ocr route.  A text is modelled *)
(* by its number of characters; an OCR block is the length of its stripped *)
(* text and its confidence in hundredths.                                  *)
(***************************************************************************)
\* how many blocks easyocr finds at most
MaxBlocks == 2

MIN_TEXT_LEN == 10

Blocks ==
  {[len |-> 0, conf |-> 90], [len |-> 4, conf |-> 90], [len |-> 5, conf |-> 30],
   [len |-> 9, conf |-> 20], [len |-> 12, conf |-> 50]}

RECURSIVE SeqsUpTo(_, _)
SeqsUpTo(S, n) ==
  IF n = 0 THEN {<<>>}
  ELSE LET shorter == SeqsUpTo(S, n - 1)
       IN shorter \cup {Append(q, x) : q \in shorter, x \in S}

\* what reader.readtext does: it raises, or returns blocks
EasyOcrOutcomes ==
  {[exc |-> TRUE, blocks |-> <<>>]}
    \cup {[exc |-> FALSE, blocks |-> b] : b \in SeqsUpTo(Blocks, MaxBlocks)}

\* what _extract_via_vision_api does: it raises, or returns a text
VisionOutcomes ==
  {[exc |-> TRUE, len |-> 0]}
    \cup {[exc |-> FALSE, len |-> n] : n \in {0, 3, 20}}

OcrInputs == [easyocr : EasyOcrOutcomes, vision : VisionOutcomes]

\* _clean_text: the blocks with confidence >= 0.3 and a non-empty text,
\* joined by single spaces
clean_text(raw_blocks) ==
  LET Kept(b) == b.conf >= 30 /\ b.len > 0
      texts == SelectSeq(raw_blocks, Kept)
      lens == [i \in 1..Len(texts) |-> texts[i].len]
  IN IF texts = <<>> THEN 0 ELSE SumSeq(lens) + Len(texts) - 1

InitOcr ==
  /\ InitPredictor
  /\ env = AllArtifactsGood
  /\ encIn = NoInput
  /\ encOut = NoEncOut
  /\ PostIdle
  /\ ocrIn \in OcrInputs
  /\ ocrPc = "easyocr"
  /\ ocrOut = NoOcrOut
  /\ ocrHttp = 0

predictorVars ==
  <<sharedVars, env, pc, callVars, localVars, outcome, http, steps, inits,
    encIn, encOut, postIn, postOut>>

\* the first try block of extract_text_from_image
TryEasyOcr ==
  /\ ocrPc = "easyocr"
  /\ IF ocrIn.easyocr.exc
       THEN ocrPc' = "vision" /\ UNCHANGED ocrOut
       ELSE LET text == clean_text(ocrIn.easyocr.blocks)
            IN IF text >= MIN_TEXT_LEN
                 THEN /\ ocrOut' = [text |-> text, source |-> "easyocr"]
                      /\ ocrPc' = "route"
                 ELSE ocrPc' = "vision" /\ UNCHANGED ocrOut
  /\ UNCHANGED <<predictorVars, ocrIn, ocrHttp>>

\* the fallback try block of extract_text_from_image
TryVisionApi ==
  /\ ocrPc = "vision"
  /\ IF ocrIn.vision.exc
       THEN ocrOut' = [text |-> 0, source |-> "error"]
       ELSE ocrOut' = [text |-> ocrIn.vision.len, source |-> "vision_api"]
  /\ ocrPc' = "route"
  /\ UNCHANGED <<predictorVars, ocrIn, ocrHttp>>

\* ocr_endpoint after extract_text_from_image returned
OcrRespond ==
  /\ ocrPc = "route"
  /\ ocrHttp' = IF ocrOut.text = 0 THEN 422 ELSE 200
  /\ ocrPc' = "done"
  /\ UNCHANGED <<predictorVars, ocrIn, ocrOut>>

NextOcr == TryEasyOcr \/ TryVisionApi \/ OcrRespond

SpecOcr == InitOcr /\ [][NextOcr]_vars

(***************************************************************************)
(* Vocabulary of the properties.                                           *)
(***************************************************************************)
Ok(step) == [name |-> step, ok |-> TRUE]

Ko(step) == [name |-> step, ok |-> FALSE]

\* the initialization, weights restored by the primary path
StepsPrimary == <<Ok("build"), Ok("load_weights"), Ok("tokenizer"), Ok("y_scaler")>>

\* the initialization, weights restored by the fallback path
StepsFallback ==
  <<Ok("build"), Ko("load_weights"), Ok("load_model"), Ok("tokenizer"),
    Ok("y_scaler")>>

\* the statements of predict() after self.load()
StepsBody ==
  <<Ok("encode_text"), Ok("encode_numeric"), Ok("infer"),
    Ok("inverse_transform"), Ok("postprocess")>>

BodyLabels ==
  {"encode_text", "encode_numeric", "infer", "inverse_transform", "postprocess"}

IsPrefix(s, t) == Len(s) <= Len(t) /\ \A i \in 1..Len(s) : s[i] = t[i]

Attempted(c, step) == \E i \in 1..Len(steps[c]) : steps[c][i].name = step

LastStep(c) == steps[c][Len(steps[c])]

TargetSet == {"likes", "comments", "shares", "clicks", "timing_quality_score"}

\* what predict() computes from the trained artifacts for one request
Pipeline(m, tok, sc, args) ==
  LET xt == encode_text(tok, args.caption, args.content)
      xn == encode_numeric(args.platform, args.post_date, args.post_time,
                           args.followers, args.ad_boost).value
  IN Postprocess(inverse_transform(sc, Forward(m, xt, xn)))

TrainedOutput(args) ==
  Pipeline([restored |-> "load_weights", weights |-> TrainedWeights],
           TheTokenizer, TheScaler, args)

\* every prediction returned is the one the trained artifacts give
ReturnsTrainedOutput ==
  \A c \in Callers :
    (op[c] = "predict" /\ outcome[c] = "returned")
      => result[c] = TrainedOutput(input[c])

(***************************************************************************)
(* C1: load() called when loaded is already true is a no-op: it executes   *)
(* no step of the initialization and leaves loaded, model, tokenizer and   *)
(* y_scaler as they were, and every prediction returned, before or after   *)
(* such a call, is the output of the trained artifacts for its input.      *)
(***************************************************************************)
C1_LoadIsNoOpWhenLoaded ==
  /\ \A c \in Callers :
       (op[c] = "load" /\ pre[c].loaded) => (steps[c] = <<>> /\ Shared = pre[c])
  /\ ReturnsTrainedOutput

C1_Witness ==
  \E c, d \in Callers :
    /\ op[c] = "load" /\ pre[c].loaded /\ outcome[c] = "returned"
    /\ op[d] = "predict" /\ outcome[d] = "returned" /\ pre[d].loaded

(***************************************************************************)
(* C2: across any interleaving of concurrent callers the initialization    *)
(* sequence runs to its end at most once.                                  *)
(***************************************************************************)
C2_OnlyOneInitialization == inits <= 1

(***************************************************************************)
(* C3: the steps of load() run in the order build, weight restoration,     *)
(* tokenizer, scaler; loaded becomes true only in the statement after all   *)
(* four succeeded; when load() exits by an exception loaded is false.      *)
(***************************************************************************)
C3_LoadOrderAndFlag ==
  /\ [](\A c \in Callers :
          \/ IsPrefix(steps[c], StepsPrimary \o <<Ok("set_loaded")>> \o StepsBody)
          \/ IsPrefix(steps[c], StepsFallback \o <<Ok("set_loaded")>> \o StepsBody)
          \/ IsPrefix(steps[c], StepsBody)
          \/ /\ steps[c] # <<>>
             /\ ~LastStep(c).ok
             /\ LET done == SubSeq(steps[c], 1, Len(steps[c]) - 1)
                    last == Ok(LastStep(c).name)
                IN \/ IsPrefix(Append(done, last), StepsPrimary \o <<Ok("set_loaded")>> \o StepsBody)
                   \/ IsPrefix(Append(done, last), StepsFallback \o <<Ok("set_loaded")>> \o StepsBody)
                   \/ IsPrefix(Append(done, last), StepsBody))
  /\ [][ /\ (~loaded /\ loaded') =>
              \E c \in Callers :
                /\ pc[c] = "set_loaded"
                /\ pc'[c] # "set_loaded"
                /\ steps[c] \in {StepsPrimary, StepsFallback}
         /\ \A c \in Callers :
              (op[c] = "load" /\ outcome[c] = "none" /\ outcome'[c] = "raised")
                => (~loaded' /\ ~loaded) ]_vars

C3_Witness ==
  \E c \in Callers :
    /\ op[c] = "load" /\ outcome[c] = "returned" /\ loaded
    /\ steps[c] = StepsFallback \o <<Ok("set_loaded")>>

(***************************************************************************)
(* C4: weight restoration tries load_weights first, right after the build; *)
(* load_model is attempted if and only if load_weights raised; load()      *)
(* fails during weight restoration only when both raised, and then loaded  *)
(* is false and the call has run no inference.                             *)
(***************************************************************************)
C4_FallbackIffPrimaryRaised ==
  \A c \in Callers :
    /\ \A i \in 1..Len(steps[c]) :
         /\ steps[c][i].name = "load_weights"
              => (i > 1 /\ steps[c][i - 1] = Ok("build"))
         /\ steps[c][i].name = "load_model"
              => (i > 1 /\ steps[c][i - 1] = Ko("load_weights"))
         /\ steps[c][i] = Ko("load_weights")
              => IF i < Len(steps[c])
                   THEN steps[c][i + 1].name = "load_model"
                   ELSE pc[c] = "load_model" /\ outcome[c] = "none"
    /\ (/\ outcome[c] = "raised"
        /\ LastStep(c).name \in {"load_weights", "load_model"})
         => /\ LastStep(c) = Ko("load_model")
            /\ ~env.load_weights /\ ~env.load_model
            /\ ~loaded
            /\ ~Attempted(c, "infer")
            /\ DOMAIN result[c] = {}

C4_Witness ==
  \E c \in Callers :
    /\ outcome[c] = "raised"
    /\ steps[c] = <<Ok("build"), Ko("load_weights"), Ko("load_model")>>
    /\ ~loaded

(***************************************************************************)
(* C5: predict() calls load() before anything else: when the Predictor is  *)
(* not loaded at the call, the call runs the whole initialization and only *)
(* then encodes, infers and postprocesses; served one at a time, no call   *)
(* is at a statement of the body of predict() while loaded is false.       *)
(***************************************************************************)
C5_PredictLoadsFirst ==
  \A c \in Callers :
    /\ pc[c] \in BodyLabels => loaded
    /\ (op[c] = "predict" /\ ~pre[c].loaded /\ steps[c] # <<>>)
         => steps[c][1].name = "build"
    /\ (op[c] = "predict" /\ ~pre[c].loaded /\ outcome[c] = "returned")
         => steps[c] \in {StepsPrimary \o <<Ok("set_loaded")>> \o StepsBody,
                          StepsFallback \o <<Ok("set_loaded")>> \o StepsBody}

C5_Witness ==
  \E c \in Callers :
    /\ op[c] = "predict" /\ ~pre[c].loaded /\ outcome[c] = "returned"
    /\ inits = 1
    /\ DOMAIN result[c] = TargetSet

(***************************************************************************)
(* C6: a predict() on a loaded Predictor that fails in encoding, inference *)
(* or postprocessing fails for its caller only: loaded, model, tokenizer   *)
(* and y_scaler are as before the call, the route answers 500, and every   *)
(* prediction returned is still the output of the trained artifacts.       *)
(***************************************************************************)
C6_FailedPredictLeavesStateIntact ==
  /\ \A c \in Callers :
       (op[c] = "predict" /\ pre[c].loaded /\ outcome[c] = "raised")
         => /\ Shared = pre[c]
            /\ loaded
            /\ http[c] = 500
            /\ LastStep(c).name \in BodyLabels
  /\ ReturnsTrainedOutput

C6_Witness ==
  \E c, d \in Callers :
    /\ op[c] = "predict" /\ pre[c].loaded /\ outcome[c] = "raised"
    /\ LastStep(c) = Ko("infer")
    /\ op[d] = "predict" /\ pre[d].loaded /\ outcome[d] = "returned"
    /\ result[d] = TrainedOutput(input[d])

(***************************************************************************)
(* C7: a predict() ends either returning a mapping with all five targets   *)
(* (the route answers 200) or raising (the route answers 500); a mapping   *)
(* with fewer than five targets is never returned.                         *)
(***************************************************************************)
C7_CompleteMappingOrFailure ==
  \A c \in Callers :
    op[c] = "predict" =>
      /\ pc[c] = "done" <=> outcome[c] \in {"returned", "raised"}
      /\ outcome[c] = "returned" => (DOMAIN result[c] = TargetSet /\ http[c] = 200)
      /\ outcome[c] = "raised" => (DOMAIN result[c] = {} /\ http[c] = 500)
      /\ outcome[c] = "none" => (DOMAIN result[c] = {} /\ http[c] = 0)

C7_Witness ==
  \E c, d \in Callers :
    /\ op[c] = "predict" /\ outcome[c] = "returned" /\ DOMAIN result[c] = TargetSet
    /\ op[d] = "predict" /\ outcome[d] = "raised" /\ http[d] = 500

(***************************************************************************)
(* C8: nothing is retried: no step of a call is executed twice, a step     *)
(* that raised ends the call at once, except load_weights, whose failure   *)
(* is followed by the single attempt of load_model.                        *)
(***************************************************************************)
C8_NoRetries ==
  \A c \in Callers :
    /\ \A i, j \in 1..Len(steps[c]) : i < j => steps[c][i].name # steps[c][j].name
    /\ \A i \in 1..Len(steps[c]) :
         ~steps[c][i].ok =>
           \/ i = Len(steps[c]) /\ outcome[c] = "raised" /\ pc[c] = "done"
           \/ steps[c][i].name = "load_weights"
    /\ outcome[c] = "raised" => (steps[c] # <<>> /\ ~LastStep(c).ok /\ pc[c] = "done")

C8_Witness ==
  \E c, d \in Callers :
    /\ outcome[c] = "raised" /\ LastStep(c) = Ko("infer")
    /\ outcome[d] = "raised" /\ LastStep(d) = Ko("inverse_transform")

(***************************************************************************)
(* C9: the first field of the numeric vector is the table value of the     *)
(* platform string (Facebook 0, Instagram 1, TikTok 2, Twitter 3,          *)
(* YouTube 4) and 0 for any other string; encoding fails for no platform.  *)
(***************************************************************************)
ClaimedPlatformId(platform) ==
  CASE platform = "Facebook" -> 0
    [] platform = "Instagram" -> 1
    [] platform = "TikTok" -> 2
    [] platform = "Twitter" -> 3
    [] platform = "YouTube" -> 4
    [] OTHER -> 0

C9_PlatformField ==
  encOut.kind = "numeric" =>
    /\ ~encOut.exc
    /\ Len(encOut.value) = NUM_FEATURES
    /\ encOut.value[1] = ClaimedPlatformId(encIn.platform) * UNIT

C9_Witness ==
  /\ encOut.kind = "numeric"
  /\ encIn.platform = "facebook"
  /\ ~encOut.exc
  /\ encOut.value[1] = 0

(***************************************************************************)
(* C10: numeric encoding raises for no post_time and no post_date; a       *)
(* post_time that does not parse gives hour 12, a post_date that does not  *)
(* parse gives day_of_week 0 and is_weekend 0, whatever the other field.   *)
(***************************************************************************)
C10_MalformedTimeDateDefaults ==
  encOut.kind = "numeric" =>
    /\ ~encOut.exc
    /\ encIn.post_time \in MalformedTimes => encOut.value[2] = 12 * UNIT
    /\ encIn.post_date \in MalformedDates
         => (encOut.value[3] = 0 /\ encOut.value[4] = 0)

C10_Witness ==
  /\ encOut.kind = "numeric"
  /\ encIn.post_time = TimeBad
  /\ encIn.post_date = DateSaturday
  /\ ~encOut.exc
  /\ encOut.value[2] = 12 * UNIT
  /\ encOut.value[3] = 5 * UNIT
  /\ encOut.value[4] = 1 * UNIT

(***************************************************************************)
(* C11: in every encoded numeric vector is_weekend is 1 if and only if     *)
(* day_of_week is 5 or 6, day_of_week being one of 0..6 (0 also for a      *)
(* date that does not parse).                                              *)
(***************************************************************************)
C11_WeekendIffSaturdaySunday ==
  encOut.kind = "numeric" =>
    /\ ~encOut.exc
    /\ encOut.value[3] \in {d * UNIT : d \in 0..6}
    /\ encOut.value[4] \in {0, UNIT}
    /\ encOut.value[4] = UNIT <=> encOut.value[3] \in {5 * UNIT, 6 * UNIT}

C11_Witness ==
  /\ encOut.kind = "numeric"
  /\ encIn.post_date = DateStr(2024, 6, 16)
  /\ encOut.value[3] = 6 * UNIT
  /\ encOut.value[4] = UNIT

(***************************************************************************)
(* C12: the token sequence has length exactly MAX_LEN = 80 for any caption *)
(* and content: the tokens of the text come first, in order, cut after the *)
(* 80th, and every position after the last token holds the padding id 0.   *)
(***************************************************************************)
\* the token ids of a text, word by word, as the claim's "token list"
TokensOf(words) ==
  LET InVocabulary(w) ==
        w \in DOMAIN TheTokenizer.word_index
          /\ TheTokenizer.word_index[w] < MAX_VOCAB
      known == SelectSeq(words, InVocabulary)
  IN [i \in 1..Len(known) |-> TheTokenizer.word_index[known[i]]]

C12_TokenSequenceLength80 ==
  encOut.kind = "text" =>
    LET tokens == TokensOf(encIn.caption \o encIn.content)
    IN /\ Len(encOut.value) = 80
       /\ \A i \in 1..80 :
            IF i <= Len(tokens)
              THEN encOut.value[i] = tokens[i]
              ELSE encOut.value[i] = 0

C12_Witness ==
  /\ encOut.kind = "text"
  /\ Len(TokensOf(encIn.caption \o encIn.content)) > 80
  /\ Len(encOut.value) = 80
  /\ encOut.value[1] = 1
  /\ encOut.value[80] = 2

(***************************************************************************)
(* C13: every value of the mapping the postprocessor returns is            *)
(* non-negative, for any raw vector and any scaler, large negative raw     *)
(* values included.                                                        *)
(***************************************************************************)
C13_OutputNonNegative ==
  postOut.done =>
    /\ DOMAIN postOut.value = TargetSet
    /\ \A t \in DOMAIN postOut.value : postOut.value[t] >= 0

C13_Witness ==
  /\ postOut.done
  /\ \A i \in 1..5 : postIn.raw[i] = -50000
  /\ \A t \in TargetSet : postOut.value[t] = 0

(***************************************************************************)
(* C14: the scaler inverse is applied to the raw vector first and the log  *)
(* inversion after it: likes, comments, shares and clicks are              *)
(* expm1(max(v, 0)) of their scaler-inverted value v, rounded to two       *)
(* decimals; timing_quality_score is its scaler-inverted value, clamped at *)
(* 0 and rounded, with no expm1.                                           *)
(***************************************************************************)
\* the scaler-inverted value of component i: raw * scale + mean
ScalerInverted(i) ==
  (postIn.raw[i] * postIn.scaler.scale[i]) \div UNIT + postIn.scaler.mean[i]

C14_ScalerThenLogInversion ==
  postOut.done =>
    /\ postOut.value["likes"] = round2(expm1(Max(ScalerInverted(1), 0)))
    /\ postOut.value["comments"] = round2(expm1(Max(ScalerInverted(2), 0)))
    /\ postOut.value["shares"] = round2(expm1(Max(ScalerInverted(3), 0)))
    /\ postOut.value["clicks"] = round2(expm1(Max(ScalerInverted(4), 0)))
    /\ postOut.value["timing_quality_score"] = round2(Max(ScalerInverted(5), 0))

C14_Witness ==
  /\ postOut.done
  /\ postIn.scaler = TheScaler
  /\ \A i \in 1..5 : postIn.raw[i] = 800
  /\ ScalerInverted(1) = 2960
  /\ postOut.value["likes"] = round2(expm1(2960))
  /\ postOut.value["likes"] > 18000
  /\ ScalerInverted(5) = 4200
  /\ postOut.value["timing_quality_score"] = 4200

(***************************************************************************)
(* C15: under any interleaving of concurrent load() and predict() callers, *)
(* whenever loaded is true the model is one whose trained weights have     *)
(* been restored, by load_weights or by load_model, and the tokenizer and  *)
(* the scaler are set, so no inference runs on a freshly built model.      *)
(***************************************************************************)
C15_LoadedImpliesRestoredModel ==
  loaded =>
    /\ model.restored \in {"load_weights", "load_model"}
    /\ model.weights = TrainedWeights
    /\ tokenizer.set
    /\ y_scaler.set

(***************************************************************************)
(* C16: extract_text_from_image always returns a result whose source is    *)
(* "easyocr" or "vision_api", whatever the easyocr attempt and the         *)
(* vision-API fallback do.                                                 *)
(***************************************************************************)
C16_SourceIsEasyocrOrVisionApi ==
  ocrPc \in {"route", "done"} => ocrOut.source \in {"easyocr", "vision_api"}

====
